---------------------------- MODULE Spec2Model ----------------------------
(***************************************************************************)
(* WindSight: the weather-snapshot script (fetch_taoyuan_weather.py) and   *)
(* the boundary-extraction script (convert_taoyuan.py).                    *)
(*                                                                         *)
(* Strings of the source that are not ASCII are written in pinyin, the     *)
(* original in the comment beside each.                                    *)
(***************************************************************************)
EXTENDS Integers, Sequences, FiniteSets, TLC

VARIABLES
    script,           \* which of the two scripts this process runs
    clock,            \* the wall clock, a naive local datetime
    pc,               \* weather script: position of the process
    now,              \* module global `now`
    target_time,      \* module global `target_time`
    payload_data,     \* module global `payload_data`
    runs,             \* invocations of fetch_and_filter_taoyuan so far
    sent,             \* every HTTP request the process has issued
    taoyuan_stations, \* local of the invocation in flight
    wfile,            \* taoyuan_realtime_weather.json
    log,              \* console output
    outcome,          \* how the last invocation ended, and what it read
    bpc,              \* boundary script: position of the process
    shp,              \* the shapefile at shp_path
    pos,              \* records the iterator has handed out
    features,         \* module global `features`
    bfile,            \* data/taoyuan_towns_moi.json
    berr              \* the uncaught exception that ended the script

vars == <<script, clock, pc, now, target_time, payload_data, runs, sent,
          taoyuan_stations, wfile, log, outcome,
          bpc, shp, pos, features, bfile, berr>>

wvars == <<pc, now, target_time, payload_data, runs, sent,
           taoyuan_stations, wfile, log, outcome>>

bvars == <<bpc, shp, pos, features, bfile, berr>>

-----------------------------------------------------------------------------
(* datetime and timedelta, as the standard library computes them           *)

DateTime(y, mo, d, h, mi, s, us) ==
    [year |-> y, month |-> mo, day |-> d,
     hour |-> h, minute |-> mi, second |-> s, microsecond |-> us]

is_leap(y) == y % 4 = 0 /\ (y % 100 # 0 \/ y % 400 = 0)

DAYS_IN_MONTH == <<31, 28, 31, 30, 31, 30, 31, 31, 30, 31, 30, 31>>

DAYS_BEFORE_MONTH == <<0, 31, 59, 90, 120, 151, 181, 212, 243, 273, 304, 334>>

B2I(b) == IF b THEN 1 ELSE 0

days_before_year(y) ==
    LET p == y - 1 IN p * 365 + p \div 4 - p \div 100 + p \div 400

days_before_month(y, m) == DAYS_BEFORE_MONTH[m] + B2I(m > 2 /\ is_leap(y))

ymd2ord(y, m, d) == days_before_year(y) + days_before_month(y, m) + d

ord2ymd(ordinal) ==
    LET n0   == ordinal - 1
        n400 == n0 \div 146097
        r400 == n0 % 146097
        n100 == r400 \div 36524
        r100 == r400 % 36524
        n4   == r100 \div 1461
        r4   == r100 % 1461
        n1   == r4 \div 365
        n    == r4 % 365
        y    == n400 * 400 + 1 + n100 * 100 + n4 * 4 + n1
    IN  IF n1 = 4 \/ n100 = 4
        THEN [year |-> y - 1, month |-> 12, day |-> 31]
        ELSE
          LET leapyear == n1 = 3 /\ (n4 # 24 \/ n100 = 3)
              m0   == (n + 50) \div 32
              pre0 == DAYS_BEFORE_MONTH[m0] + B2I(m0 > 2 /\ leapyear)
              m    == IF pre0 > n THEN m0 - 1 ELSE m0
              pre  == IF pre0 > n
                      THEN pre0 - (DAYS_IN_MONTH[m] + B2I(m = 2 /\ leapyear))
                      ELSE pre0
          IN  [year |-> y, month |-> m, day |-> n - pre + 1]

\* timedelta(days, seconds, microseconds), normalised as the constructor does
timedelta(d, s, us) ==
    LET s1 == s + us \div 1000000
    IN  [days |-> d + s1 \div 86400, seconds |-> s1 % 86400,
         microseconds |-> us % 1000000]

minutes(m) == timedelta(0, m * 60, 0)

\* datetime.__sub__(timedelta): self + (-other), through the ordinal
DateTimeSub(dt, td) ==
    LET neg   == timedelta(-td.days, -td.seconds, -td.microseconds)
        self  == timedelta(ymd2ord(dt.year, dt.month, dt.day),
                           dt.hour * 3600 + dt.minute * 60 + dt.second,
                           dt.microsecond)
        delta == timedelta(self.days + neg.days, self.seconds + neg.seconds,
                           self.microseconds + neg.microseconds)
        date  == ord2ymd(delta.days)
    IN  DateTime(date.year, date.month, date.day,
                 delta.seconds \div 3600, (delta.seconds % 3600) \div 60,
                 delta.seconds % 60, delta.microseconds)

Pad2(n) == IF n < 10 THEN "0" \o ToString(n) ELSE ToString(n)

Pad4(n) == IF n < 10 THEN "000" \o ToString(n)
           ELSE IF n < 100 THEN "00" \o ToString(n)
           ELSE IF n < 1000 THEN "0" \o ToString(n)
           ELSE ToString(n)

\* strftime('%Y-%m-%d %H:%M')
strftime_minute(dt) ==
    Pad4(dt.year) \o "-" \o Pad2(dt.month) \o "-" \o Pad2(dt.day)
        \o " " \o Pad2(dt.hour) \o ":" \o Pad2(dt.minute)

\* strftime('%Y-%m-%d %H:%M:%S')
strftime_second(dt) == strftime_minute(dt) \o ":" \o Pad2(dt.second)

-----------------------------------------------------------------------------
(* The snapshot-time resolver: lines 46-49 of fetch_taoyuan_weather.py     *)

\* line 47 without the truncation
minute_raw(t) == t.minute

minute_of(t) == (t.minute \div 10) * 10

\* line 48 as a change of the minute field alone, the hour and the date
\* left as they are
TargetTimeNoCarry(t) ==
    [t EXCEPT !.minute = (minute_of(t) + 50) % 60, !.second = 0,
              !.microsecond = 0]

TargetTime(t) ==
    DateTimeSub([t EXCEPT !.minute = minute_of(t), !.second = 0,
                          !.microsecond = 0],
                minutes(10))


-----------------------------------------------------------------------------
(* Module constants of fetch_taoyuan_weather.py                            *)

url == "https://qpeplus.cwa.gov.tw/pub/rainmonitor/get_tag_sectiondisplay_by_tag/"

\* the headers with a token other than the cookie's
headers_stale ==
    [Referer |-> "https://qpeplus.cwa.gov.tw/pub/?tab=monitor",
     X_CSRFToken |-> "0ldT0kenFr0mAnEarlierSessi0n0000",
     X_Requested_With |-> "XMLHttpRequest"]

headers ==
    [Referer |-> "https://qpeplus.cwa.gov.tw/pub/?tab=monitor",
     X_CSRFToken |-> "1fUE8EFrgOyTgWlQnHfHSFYkBmXL1uGO",
     X_Requested_With |-> "XMLHttpRequest"]

cookies ==
    [csrftoken |-> "1fUE8EFrgOyTgWlQnHfHSFYkBmXL1uGO",
     sessionid |-> "w7k33u5gzz5pg810e7imd52yt2g3s913"]

\* the payload_data dictionary built from a resolved time
Payload(t) ==
    [tag_id |-> "14", data_time |-> strftime_second(t),
     group |-> "Guest", lang |-> "tw"]

CITY_KEY == "XianShi"        \* '縣市'
NAME_KEY == "ZhanMing"       \* '站名'
ID_KEY   == "ZhanHao"        \* '站號'
TEMP_KEY == "WenDu(C)"       \* '溫度(°C)'
RAIN_KEY == "DangRiLeiJiYuLiang(mm)"   \* '當日累積雨量(mm)'
TAOYUAN  == "TaoyuanShi"     \* '桃園市'

-----------------------------------------------------------------------------
(* Python values                                                           *)

\* dict.get(key): <<>> stands for None, <<v>> for the value v
Get(d, k) == IF k \in DOMAIN d THEN <<d[k]>> ELSE <<>>

\* str(x) inside an f-string
Str(o) == IF o = <<>> THEN "None" ELSE o[1]

\* a string holding a lone surrogate, which the JSON decoder accepts
\* (the escape \ud800) and the UTF-8 codec refuses to encode
SURROGATE == "<U+D800>"

Quoted(s) == "\"" \o s \o "\""

utf8_ok(text) == text \notin {SURROGATE, Quoted(SURROGATE)}

-----------------------------------------------------------------------------
(* json.dump: the chunks the encoder hands to the file one by one          *)

RECURSIVE DumpItems(_, _)
DumpItems(d, keys) ==
    IF keys = <<>> THEN <<>>
    ELSE LET k == Head(keys)
             rest == DumpItems(d, Tail(keys))
         IN  IF k \in DOMAIN d
             THEN <<Quoted(k) \o ": ", Quoted(d[k])>>
                    \o (IF rest = <<>> THEN <<>> ELSE <<",">> \o rest)
             ELSE rest

\* the keys of a mapping, in the order the encoder meets them
KeyOrder == <<CITY_KEY, ID_KEY, NAME_KEY, TEMP_KEY, RAIN_KEY, "extra",
              "COUNTYNAME", "TOWNNAME">>

DumpDict(d) ==
    IF DOMAIN d = {} THEN <<"{}">>
    ELSE <<"{">> \o DumpItems(d, KeyOrder) \o <<"}">>

RECURSIVE DumpList(_)
DumpList(items) ==
    IF items = <<>> THEN <<>>
    ELSE DumpDict(Head(items))
           \o (IF Tail(items) = <<>> THEN <<>>
               ELSE <<",">> \o DumpList(Tail(items)))

DumpArray(items) ==
    IF items = <<>> THEN <<"[]">>
    ELSE <<"[">> \o DumpList(items) \o <<"]">>

\* json.dump(output_data, ...)
DumpEnvelope(e) ==
    <<"{", "\"updated_at\": ", Quoted(e.updated_at), ",", "\"data\": ">>
        \o DumpArray(e.data) \o <<"}">>

\* f.write(chunk) for every chunk: the chunks written before the first one
\* the codec refuses
WrittenChunks(chunks) ==
    LET bad == {i \in 1..Len(chunks) : ~utf8_ok(chunks[i])}
    IN  IF bad = {} THEN chunks
        ELSE SubSeq(chunks, 1, (CHOOSE i \in bad : \A j \in bad : i <= j) - 1)

\* a file: whether it exists, and the chunks it holds
File(chunks) == [exists |-> TRUE, text |-> chunks]

Absent == [exists |-> FALSE, text |-> <<>>]

-----------------------------------------------------------------------------
(* What the server may answer                                              *)

MaxStations == 3

Station(city, id) == [XianShi |-> city, ZhanHao |-> id]

\* the station readings the responses are built from: two of the target
\* city, one of another city, one with no city field, one of the target city
\* with an unencodable string in a field the console loop does not print,
\* and one with it in the station name, which the loop prints
Stations ==
    { Station(TAOYUAN, "A"),
      Station("TaibeiShi", "B"),
      Station(TAOYUAN, "C"),
      [ZhanHao |-> "N"],
      [XianShi |-> TAOYUAN, ZhanHao |-> "S", extra |-> SURROGATE],
      [XianShi |-> TAOYUAN, ZhanHao |-> "P", ZhanMing |-> SURROGATE] }

SeqsUpTo(S, n) == UNION {[1..k -> S] : k \in 0..n}

None == [type |-> "None"]

List(items) == [type |-> "list", items |-> items]

\* a decoded JSON object with the keys the function reads; an absent key is
\* <<>>, a present one <<value>>
Dict(status, failed_code, data) ==
    [type |-> "dict", status |-> status, failed_code |-> failed_code,
     data |-> data]

Http(code, body) == [kind |-> "http", code |-> code, body |-> body]

\* the decoded bodies: objects without status 'success', a JSON array, and
\* objects with status 'success' whose data is absent, null or a list
Results(lists) ==
    { Dict(st, fc, <<>>) : st \in {<<>>, <<"error">>}, fc \in {<<>>, <<"X">>} }
      \cup { [type |-> "list"] }
      \cup { Dict(<<"success">>, <<>>, <<>>), Dict(<<"success">>, <<>>, <<None>>) }
      \cup { Dict(<<"success">>, <<>>, <<List(l)>>) : l \in lists }
      \cup { Dict(<<"error">>, <<"X">>, <<List(l)>>) : l \in lists \cap {<<Station(TAOYUAN, "A")>>} }

\* a transport error, an HTTP error status, a body that is not JSON, or a
\* JSON body
ResponsesOver(lists) ==
    { [kind |-> "conn_error"] }
      \cup { Http(c, [json |-> FALSE]) : c \in {200, 404, 503} }
      \cup { Http(200, [json |-> TRUE, value |-> v]) : v \in Results(lists) }

Responses == ResponsesOver(SeqsUpTo(Stations, MaxStations))

FewResponses ==
    ResponsesOver({<<>>, <<Station(TAOYUAN, "A"), Station("TaibeiShi", "B")>>})

-----------------------------------------------------------------------------
(* fetch_and_filter_taoyuan, lines 58-96                                   *)

\* dict.get(key, default) on a decoded object
GetOr(o, default) == IF o = <<>> THEN default ELSE o[1]

\* line 66 with an absent status read as success
IsSuccessLenient(result) == result.status \in {<<>>, <<"success">>}

\* the test of line 66, negated
IsSuccess(result) == result.status = <<"success">>

\* lines 73-76 keeping one reading of each station
FilterDedup(all_stations) ==
    LET m == SelectSeq(all_stations,
                       LAMBDA station : Get(station, CITY_KEY) = <<TAOYUAN>>)
        keep == {i \in 1..Len(m) : \A j \in 1..(i - 1) : m[j] # m[i]}
    IN  [k \in 1..Cardinality(keep) |->
            m[CHOOSE i \in keep : Cardinality({j \in keep : j <= i}) = k]]

\* lines 73-76 with a reading that has no city field taken as the target's
FilterDefaultCity(all_stations) ==
    SelectSeq(all_stations,
              LAMBDA station : Get(station, CITY_KEY) \in {<<>>, <<TAOYUAN>>})

\* the list comprehension of lines 73-76
FilterTaoyuan(all_stations) ==
    SelectSeq(all_stations, LAMBDA station : Get(station, CITY_KEY) = <<TAOYUAN>>)

\* the line printed for one station, line 82
SampleLine(s) ==
    Str(Get(s, NAME_KEY)) \o " (" \o Str(Get(s, ID_KEY)) \o "): "
      \o Str(Get(s, TEMP_KEY)) \o "(deg)C, YuLiang: "   \* '°C, 雨量: '
      \o Str(Get(s, RAIN_KEY)) \o "mm"

\* whether the console accepts the line of station s
SampleOk(s) ==
    \A k \in {NAME_KEY, ID_KEY, TEMP_KEY, RAIN_KEY} : utf8_ok(Str(Get(s, k)))

\* the loop of lines 81-82 over samples: what it prints, and whether it
\* raises
RECURSIVE PrintSamples(_)
PrintSamples(samples) ==
    IF samples = <<>> THEN [prints |-> <<>>, exc |-> "none"]
    ELSE IF ~SampleOk(Head(samples))
    THEN [prints |-> <<>>, exc |-> "UnicodeEncodeError"]
    ELSE LET rest == PrintSamples(Tail(samples))
         IN  [prints |-> <<SampleLine(Head(samples))>> \o rest.prints,
              exc |-> rest.exc]

Raised(prints, e) ==
    [prints |-> prints \o <<"Error occurred: " \o e>>, end |-> "exception",
     stations |-> <<>>]

\* lines 61-82 on the response r: what is printed, how the segment ends
\* ("continue" to the save, "return", or "exception" caught at line 95), and
\* the filtered stations
Body(r) ==
    IF r.kind = "conn_error" THEN Raised(<<>>, "ConnectionError")
    ELSE IF r.code >= 400 /\ r.code < 600 THEN Raised(<<>>, "HTTPError")
    ELSE IF ~r.body.json THEN Raised(<<>>, "JSONDecodeError")
    ELSE LET result == r.body.value IN
    IF result.type # "dict" THEN Raised(<<>>, "AttributeError")
    ELSE IF ~IsSuccess(result)
    THEN [prints |-> <<"API returned error: " \o Str(result.failed_code)>>,
          end |-> "return", stations |-> <<>>]
    ELSE LET all_stations == GetOr(result.data, List(<<>>)) IN
    IF all_stations.type # "list" THEN Raised(<<>>, "TypeError")
    ELSE LET taoyuan == FilterTaoyuan(all_stations.items)
             head == <<"Total stations retrieved: "
                         \o ToString(Len(all_stations.items)),
                       "Found " \o ToString(Len(taoyuan))
                         \o " stations in Taoyuan City.">>
             loop == PrintSamples(SubSeq(taoyuan, 1, IF Len(taoyuan) < 5
                                                     THEN Len(taoyuan) ELSE 5))
         IN  IF loop.exc # "none"
             THEN Raised(head \o loop.prints, loop.exc)
             ELSE [prints |-> head \o loop.prints, end |-> "continue",
                   stations |-> taoyuan]

\* lines 86-89 stamped with the snapshot time of the request
OutputDataStale(t, stations) ==
    [updated_at |-> payload_data.data_time, data |-> stations]

\* lines 86-89
OutputData(t, stations) ==
    [updated_at |-> strftime_minute(t), data |-> stations]

NoResponse == [kind |-> "none"]

\* the record of an invocation: how it ended, the response it read, the
\* output file as the invocation found it, and the clock when the request
\* left, when the response came and when the envelope was built
Outcome(end, r, before, posted, received, saved) ==
    [end |-> end, response |-> r, before |-> before, posted_at |-> posted,
     received_at |-> received, saved_at |-> saved]

\* module import, lines 46-56
Load ==
    /\ script = "weather"
    /\ pc = "start"
    /\ now' = clock
    /\ target_time' = TargetTime(clock)
    /\ payload_data' = Payload(target_time')
    /\ pc' = "main"
    /\ UNCHANGED <<script, clock, runs, sent, taoyuan_stations, wfile, log,
                   outcome>>
    /\ UNCHANGED bvars

\* lines 59-61, up to the request leaving; limit bounds the invocations
Post(limit) ==
    /\ script = "weather"
    /\ pc = "main"
    /\ runs < limit
    /\ runs' = runs + 1
    /\ log' = log \o <<"Fetching data from " \o url \o "...">>
    /\ sent' = Append(sent, [method |-> "POST", url |-> url,
                             headers |-> headers, cookies |-> cookies,
                             data |-> payload_data, at |-> clock])
    /\ outcome' = Outcome("running", NoResponse, wfile, clock, clock, clock)
    /\ pc' = "posted"
    /\ UNCHANGED <<script, clock, now, target_time, payload_data,
                   taoyuan_stations, wfile>>
    /\ UNCHANGED bvars

\* lines 61-82: the response r arrives and is decoded, checked, filtered
Receive(r) ==
    /\ script = "weather"
    /\ pc = "posted"
    /\ LET b == Body(r) IN
       /\ log' = log \o b.prints
       /\ taoyuan_stations' = b.stations
       /\ pc' = IF b.end = "continue" THEN "received" ELSE "main"
       /\ outcome' = [outcome EXCEPT !.response = r, !.received_at = clock,
                        !.saved_at = clock,
                        !.end = IF b.end = "continue" THEN "running" ELSE b.end]
    /\ UNCHANGED <<script, clock, now, target_time, payload_data, runs, sent,
                   wfile>>
    /\ UNCHANGED bvars

\* lines 86-96: the envelope is built and written
Save ==
    /\ script = "weather"
    /\ pc = "received"
    /\ LET output_data == OutputData(clock, taoyuan_stations)
           chunks == DumpEnvelope(output_data)
           written == WrittenChunks(chunks)
       IN  /\ wfile' = File(written)
           /\ IF written = chunks
              THEN /\ log' = log \o <<"Saved filtered data to taoyuan_realtime_weather.json">>
                   /\ outcome' = [outcome EXCEPT !.end = "saved", !.saved_at = clock]
              ELSE /\ log' = log \o <<"Error occurred: UnicodeEncodeError">>
                   /\ outcome' = [outcome EXCEPT !.end = "exception", !.saved_at = clock]
    /\ taoyuan_stations' = <<>>
    /\ pc' = "main"
    /\ UNCHANGED <<script, clock, now, target_time, payload_data, runs, sent>>
    /\ UNCHANGED bvars

-----------------------------------------------------------------------------
(* The wall clock                                                          *)

\* the key two naive datetimes are ordered by
Stamp(t) ==
    <<ymd2ord(t.year, t.month, t.day),
      t.hour * 3600 + t.minute * 60 + t.second, t.microsecond>>

Before(a, b) ==
    LET x == Stamp(a)
        y == Stamp(b)
    IN  \/ x[1] < y[1]
        \/ x[1] = y[1] /\ x[2] < y[2]
        \/ x[1] = y[1] /\ x[2] = y[2] /\ x[3] < y[3]

\* the instants the clock is read at in a run of the scripts
Instants ==
    { DateTime(2024, 1, 1, 10, 37, 0, 0),
      DateTime(2024, 1, 1, 10, 39, 59, 999999),
      DateTime(2024, 1, 1, 10, 40, 0, 0),
      DateTime(2024, 1, 1, 10, 47, 30, 0) }

\* the instants a run is started at
StartInstants ==
    { DateTime(2024, 1, 1, 10, 37, 0, 0),
      DateTime(2024, 1, 1, 10, 39, 59, 999999) }

\* time passes while the process waits: before a call, during the request,
\* between the response and the save
Tick(limit) ==
    /\ script = "weather"
    /\ \/ pc \in {"posted", "received"}
       \/ pc = "main" /\ runs < limit
    /\ \E t \in Instants : Before(clock, t) /\ clock' = t
    /\ UNCHANGED <<script>>
    /\ UNCHANGED wvars
    /\ UNCHANGED bvars

-----------------------------------------------------------------------------
(* convert_taoyuan.py                                                      *)

MaxRecords == 3

\* dict(zip(keys, values))
ZipDict(keys, values) ==
    LET n == IF Len(keys) < Len(values) THEN Len(keys) ELSE Len(values)
    IN  [k \in {keys[i] : i \in 1..n} |->
            values[CHOOSE i \in 1..n :
                      keys[i] = k /\ \A j \in 1..n : keys[j] = k => j <= i]]

\* line 8
Fields(sf) == Tail(sf.fields)

\* lines 21-25
Feature(props, geom) ==
    [type |-> "Feature", properties |-> props, geometry |-> geom]

DumpFeature(f) ==
    <<"{", "\"type\": ", Quoted(f.type), ",", "\"properties\": ">>
        \o DumpDict(f.properties)
        \o <<",", "\"geometry\": ", Quoted(f.geometry), "}">>

RECURSIVE DumpFeatures(_)
DumpFeatures(fs) ==
    IF fs = <<>> THEN <<>>
    ELSE DumpFeature(Head(fs))
           \o (IF Tail(fs) = <<>> THEN <<>>
               ELSE <<",">> \o DumpFeatures(Tail(fs)))

\* json.dump(geojson, ...), lines 28-36
DumpGeoJSON(g) ==
    <<"{", "\"type\": ", Quoted(g.type), ",", "\"features\": ">>
        \o (IF g.features = <<>> THEN <<"[]">>
            ELSE <<"[">> \o DumpFeatures(g.features) \o <<"]">>)
        \o <<"}">>

ShapeRecord(rec, shape) == [record |-> rec, shape |-> shape]

\* a shapefile: whether the reader can open it, its field descriptors (the
\* deletion flag first), its shape records, and the record at which the
\* iterator raises (0: none)
Shapefile(readable, fields, records, fail_at) ==
    [readable |-> readable, fields |-> fields, records |-> records,
     fail_at |-> fail_at]

NoShapefile == Shapefile(FALSE, <<>>, <<>>, 0)

\* shapefiles whose attribute table has COUNTYNAME, and shapefiles whose
\* table lacks it
Shapefiles ==
    { Shapefile(FALSE, <<"DeletionFlag", "COUNTYNAME", "TOWNNAME">>, <<>>, 0) }
      \cup { Shapefile(TRUE, <<"DeletionFlag", "COUNTYNAME", "TOWNNAME">>, rs, k) :
               rs \in SeqsUpTo({ ShapeRecord(<<TAOYUAN, "t1">>, "g1"),
                                 ShapeRecord(<<"TaibeiShi", "t2">>, "g2"),
                                 ShapeRecord(<<TAOYUAN, "t3">>, "g3") }, MaxRecords),
               k \in 0..(MaxRecords + 1) }
      \cup { Shapefile(TRUE, <<"DeletionFlag", "TOWNNAME">>, rs, 0) :
               rs \in SeqsUpTo({ ShapeRecord(<<"t1">>, "g1"),
                                 ShapeRecord(<<"t2">>, "g2") }, MaxRecords) }

\* line 18 with a missing key read as the empty string
LookupOrDefault(props, key) ==
    IF key \in DOMAIN props THEN <<props[key]>> ELSE <<"">>

\* props[key]: <<>> stands for the KeyError, <<v>> for the value v
Lookup(props, key) == IF key \in DOMAIN props THEN <<props[key]>> ELSE <<>>

Crash(e) ==
    /\ berr' = e
    /\ bpc' = "crashed"
    /\ UNCHANGED <<shp, pos, features, bfile>>

\* lines 7-10
BOpen ==
    /\ script = "boundary"
    /\ bpc = "start"
    /\ IF ~shp.readable
       THEN Crash("ShapefileException")
       ELSE /\ bpc' = "iter"
            /\ pos' = 0
            /\ features' = <<>>
            /\ UNCHANGED <<shp, bfile, berr>>
    /\ UNCHANGED <<script, clock>>
    /\ UNCHANGED wvars

\* one turn of the loop of lines 13-26
BIter ==
    /\ script = "boundary"
    /\ bpc = "iter"
    /\ \/ pos < Len(shp.records)
       \/ shp.fail_at = pos + 1
    /\ IF shp.fail_at = pos + 1
       THEN Crash("ShapefileException")
       ELSE LET shapeRecord == shp.records[pos + 1]
                props == ZipDict(Fields(shp), shapeRecord.record)
                county == Lookup(props, "COUNTYNAME")
            IN  IF county = <<>>
                THEN Crash("KeyError")
                ELSE /\ features' =
                          IF county[1] = TAOYUAN
                          THEN Append(features, Feature(props, shapeRecord.shape))
                          ELSE features
                     /\ pos' = pos + 1
                     /\ UNCHANGED <<bpc, shp, bfile, berr>>
    /\ UNCHANGED <<script, clock>>
    /\ UNCHANGED wvars

\* lines 28-38, once the iterator is exhausted
BWrite ==
    /\ script = "boundary"
    /\ bpc = "iter"
    /\ pos = Len(shp.records)
    /\ shp.fail_at # pos + 1
    /\ LET geojson == [type |-> "FeatureCollection", features |-> features]
       IN  bfile' = File(DumpGeoJSON(geojson))
    /\ bpc' = "exit"
    /\ UNCHANGED <<shp, pos, features, berr>>
    /\ UNCHANGED <<script, clock>>
    /\ UNCHANGED wvars

-----------------------------------------------------------------------------
(* Specifications                                                          *)

\* what the output files may hold before a run
OldEnvelope ==
    File(DumpEnvelope([updated_at |-> "2023-12-31 09:00",
                       data |-> <<Station(TAOYUAN, "A")>>]))

OldGeoJSON ==
    File(DumpGeoJSON([type |-> "FeatureCollection",
                      features |-> <<Feature([COUNTYNAME |-> TAOYUAN,
                                              TOWNNAME |-> "t0"], "g0")>>]))

WeatherOff ==
    /\ pc = "off"
    /\ now = DateTime(1, 1, 1, 0, 0, 0, 0)
    /\ target_time = DateTime(1, 1, 1, 0, 0, 0, 0)
    /\ payload_data = Payload(DateTime(1, 1, 1, 0, 0, 0, 0))
    /\ runs = 0
    /\ sent = <<>>
    /\ taoyuan_stations = <<>>
    /\ wfile = Absent
    /\ log = <<>>
    /\ outcome = Outcome("none", NoResponse, Absent,
                         DateTime(1, 1, 1, 0, 0, 0, 0),
                         DateTime(1, 1, 1, 0, 0, 0, 0),
                         DateTime(1, 1, 1, 0, 0, 0, 0))

BoundaryOff ==
    /\ bpc = "off"
    /\ shp = NoShapefile
    /\ pos = 0
    /\ features = <<>>
    /\ bfile = Absent
    /\ berr = "none"

\* the weather script is started at one of times, the output file being one
\* of files
InitWeather(times, files) ==
    /\ script = "weather"
    /\ clock \in times
    /\ pc = "start"
    /\ now = DateTime(1, 1, 1, 0, 0, 0, 0)
    /\ target_time = DateTime(1, 1, 1, 0, 0, 0, 0)
    /\ payload_data = Payload(DateTime(1, 1, 1, 0, 0, 0, 0))
    /\ runs = 0
    /\ sent = <<>>
    /\ taoyuan_stations = <<>>
    /\ wfile \in files
    /\ log = <<>>
    /\ outcome = Outcome("none", NoResponse, wfile, clock, clock, clock)
    /\ BoundaryOff

InitBoundary ==
    /\ script = "boundary"
    /\ clock = DateTime(2024, 1, 1, 10, 37, 0, 0)
    /\ WeatherOff
    /\ bpc = "start"
    /\ shp \in Shapefiles
    /\ pos = 0
    /\ features = <<>>
    /\ bfile \in {Absent, OldGeoJSON}
    /\ berr = "none"

\* either script, run once as a program (lines 98-99 call the function once)
Init == InitWeather(StartInstants, {Absent, OldEnvelope}) \/ InitBoundary

Next ==
    \/ Load
    \/ Tick(1)
    \/ Post(1)
    \/ \E r \in Responses : Receive(r)
    \/ Save
    \/ BOpen
    \/ BIter
    \/ BWrite

Spec == Init /\ [][Next]_vars

\* the module imported and the function called several times
MaxRuns == 2

NextReuse ==
    \/ Load
    \/ Tick(MaxRuns)
    \/ Post(MaxRuns)
    \/ \E r \in FewResponses : Receive(r)
    \/ Save

SpecReuse == InitWeather(StartInstants, {Absent}) /\ [][NextReuse]_vars

\* the resolver alone, over the current times it may be given
ResolverDates ==
    { <<2024, 1, 1>>, <<2024, 1, 15>>, <<2024, 3, 1>>, <<2023, 3, 1>>,
      <<2100, 3, 1>>, <<2000, 3, 1>>, <<2024, 5, 1>>, <<2024, 12, 31>>,
      <<2023, 12, 31>> }

ResolverTimes ==
    { DateTime(d[1], d[2], d[3], h, mi, x[1], x[2]) :
        d \in ResolverDates, h \in {0, 1, 10, 23}, mi \in 0..59,
        x \in { <<0, 0>>, <<0, 1>>, <<30, 500000>>, <<59, 999999>> } }

SpecResolver == InitWeather(ResolverTimes, {Absent}) /\ [][Load]_vars

-----------------------------------------------------------------------------
(* Reading back what the program wrote, for the properties below           *)

Digit(c) == CHOOSE d \in 0..9 : ToString(d) = c

RECURSIVE ParseInt(_)
ParseInt(text) ==
    IF Len(text) = 0 THEN 0
    ELSE ParseInt(SubSeq(text, 1, Len(text) - 1)) * 10
           + Digit(SubSeq(text, Len(text), Len(text)))

Part(text, i, j) == ParseInt(SubSeq(text, i, j))

\* the datetime a 'YYYY-MM-DD HH:MM:SS' text denotes
ParseSecond(text) ==
    DateTime(Part(text, 1, 4), Part(text, 6, 7), Part(text, 9, 10),
             Part(text, 12, 13), Part(text, 15, 16), Part(text, 18, 19), 0)

\* the datetime a 'YYYY-MM-DD HH:MM' text denotes
ParseMinute(text) ==
    DateTime(Part(text, 1, 4), Part(text, 6, 7), Part(text, 9, 10),
             Part(text, 12, 13), Part(text, 15, 16), 0, 0)

\* the time from a to b, as <<whole seconds, microseconds>>
Elapsed(a, b) ==
    LET x == Stamp(a)
        y == Stamp(b)
        us == y[3] - x[3]
    IN  <<(y[1] - x[1]) * 86400 + (y[2] - x[2]) + us \div 1000000,
          us % 1000000>>

\* from 10 to 20 minutes, both included
TenToTwentyMinutes(e) == e[1] >= 600 /\ (e[1] < 1200 \/ e = <<1200, 0>>)

LeapYear(y) == (y % 4 = 0 /\ y % 100 # 0) \/ y % 400 = 0

DaysIn(y, m) ==
    IF m \in {4, 6, 9, 11} THEN 30
    ELSE IF m # 2 THEN 31
    ELSE IF LeapYear(y) THEN 29 ELSE 28

\* the resolver's result by the calendar: the minute truncated, ten minutes
\* back, borrowing from the hour, the day, the month and the year
Expected(t) ==
    LET m10 == t.minute - (t.minute % 10)
    IN  IF m10 >= 10
        THEN DateTime(t.year, t.month, t.day, t.hour, m10 - 10, 0, 0)
        ELSE IF t.hour > 0
        THEN DateTime(t.year, t.month, t.day, t.hour - 1, 50, 0, 0)
        ELSE IF t.day > 1
        THEN DateTime(t.year, t.month, t.day - 1, 23, 50, 0, 0)
        ELSE IF t.month > 1
        THEN DateTime(t.year, t.month - 1, DaysIn(t.year, t.month - 1),
                      23, 50, 0, 0)
        ELSE DateTime(t.year - 1, 12, 31, 23, 50, 0, 0)

\* the k-th smallest member of a set of indices
KthIndex(idx, k) == CHOOSE i \in idx : Cardinality({j \in idx : j <= i}) = k

\* the members of input at the indices idx, in their order
Select(input, idx) == [k \in 1..Cardinality(idx) |-> input[KthIndex(idx, k)]]

\* the indices of the readings whose city field is the target city
TaoyuanIdx(items) ==
    {i \in 1..Len(items) :
        CITY_KEY \in DOMAIN items[i] /\ items[i][CITY_KEY] = TAOYUAN}

IsObject(r) == r.kind = "http" /\ r.code = 200 /\ r.body.json
                 /\ r.body.value.type = "dict"

\* the station readings of a response whose status is 'success': the data
\* list, or none when the data field is absent
Items(r) ==
    IF r.body.value.data = <<>> THEN <<>> ELSE r.body.value.data[1].items

HasItems(r) ==
    /\ IsObject(r)
    /\ r.body.value.status = <<"success">>
    /\ r.body.value.data = <<>> \/ r.body.value.data[1].type = "list"

RECURSIVE Depth(_)
Depth(text) ==
    IF text = <<>> THEN 0
    ELSE Depth(SubSeq(text, 1, Len(text) - 1))
           + (IF text[Len(text)] \in {"{", "["} THEN 1
              ELSE IF text[Len(text)] \in {"}", "]"} THEN -1 ELSE 0)

\* the chunks form one closed JSON object
CompleteJson(text) ==
    /\ text # <<>>
    /\ text[1] = "{"
    /\ text[Len(text)] = "}"
    /\ Depth(text) = 0
    /\ \A n \in 1..(Len(text) - 1) : Depth(SubSeq(text, 1, n)) > 0

\* an invocation of fetch_and_filter_taoyuan has returned
Returned == script = "weather" /\ pc = "main" /\ runs >= 1

LastRequest == sent[Len(sent)]

\* the updated_at text of the envelope in the output file
UpdatedAt(file) == SubSeq(file.text[3], 2, Len(file.text[3]) - 1)

IsErrorLine(line) ==
    \/ Len(line) >= 15 /\ SubSeq(line, 1, 15) = "Error occurred:"
    \/ Len(line) >= 19 /\ SubSeq(line, 1, 19) = "API returned error:"

-----------------------------------------------------------------------------
(* Properties                                                              *)

\* C1: the snapshot time sent as data_time is earlier than the current time
\* the resolver read by at least 10 and at most 20 minutes, and its minute
\* is a multiple of 10.
C1_SnapshotWindow ==
    pc = "main" =>
        LET snap == ParseSecond(payload_data.data_time)
        IN  /\ Len(payload_data.data_time) = 19
            /\ Before(snap, now)
            /\ TenToTwentyMinutes(Elapsed(snap, now))
            /\ snap.minute % 10 = 0

C1_Witness ==
    /\ pc = "main"
    /\ now = DateTime(2024, 1, 1, 10, 39, 59, 999999)
    /\ payload_data.data_time = "2024-01-01 10:20:00"

\* C8: the resolver's output is the current time with the minute truncated
\* to a multiple of 10 and the seconds zeroed, minus 10 minutes carried
\* across hour, day, month and year; 2024-01-01 10:37:00 gives
\* "2024-01-01 10:20:00".
C8_ResolverValue ==
    pc = "main" =>
        /\ target_time = Expected(now)
        /\ ParseSecond(payload_data.data_time) = Expected(now)
        /\ now = DateTime(2024, 1, 1, 10, 37, 0, 0)
             => payload_data.data_time = "2024-01-01 10:20:00"

C8_Witness ==
    /\ pc = "main"
    /\ now.year = 2024 /\ now.month = 1 /\ now.day = 1
    /\ now.hour = 0 /\ now.minute = 9
    /\ payload_data.data_time = "2023-12-31 23:50:00"

\* C2: the station filter's output, and the record filter's, is the
\* order-preserving subsequence of the input holding exactly the elements
\* whose city field is the target city: none inserted, reordered or
\* deduplicated.
C2_FilterIsSubsequence ==
    /\ pc = "received" =>
          /\ HasItems(outcome.response)
          /\ taoyuan_stations =
               Select(Items(outcome.response), TaoyuanIdx(Items(outcome.response)))
    /\ bpc \in {"iter", "exit"} =>
          LET idx == {i \in 1..pos : shp.records[i].record[1] = TAOYUAN}
          IN  /\ pos > 0 => shp.fields[2] = "COUNTYNAME"
              /\ Len(features) = Cardinality(idx)
              /\ \A k \in 1..Len(features) :
                    LET sr == shp.records[KthIndex(idx, k)]
                    IN  features[k] =
                          [type |-> "Feature",
                           properties |-> [COUNTYNAME |-> sr.record[1],
                                           TOWNNAME |-> sr.record[2]],
                           geometry |-> sr.shape]

C2_Witness ==
    /\ pc = "received"
    /\ Items(outcome.response) =
         <<Station(TAOYUAN, "A"), Station("TaibeiShi", "B"), Station(TAOYUAN, "C")>>
    /\ taoyuan_stations = <<Station(TAOYUAN, "A"), Station(TAOYUAN, "C")>>

\* C3: when an exception is raised during an invocation it is caught and the
\* invocation ends with no output file written: at the end the output file
\* is either untouched or holds one complete envelope, never a partial one.
C3_NoPartialOutput ==
    Returned =>
        /\ wfile = outcome.before \/ (wfile.exists /\ CompleteJson(wfile.text))
        /\ outcome.end = "exception" => wfile = outcome.before

C5_TokenFromLandingPage ==
    \A i \in 1..Len(sent) :
        sent[i].method = "POST" =>
            /\ \E j \in 1..(i - 1) : sent[j].method = "GET"
            /\ sent[i].cookies.csrftoken = sent[i].headers.X_CSRFToken

\* C5, amended: the POST to the data endpoint is the only request an
\* invocation issues, no GET precedes it, and the token it carries is the
\* one fixed in the module's constants, the same in the csrftoken cookie and
\* the X-CSRFToken header.
C5_FixedToken ==
    /\ Len(sent) = runs
    /\ \A i \in 1..Len(sent) :
          /\ sent[i].method = "POST"
          /\ sent[i].url = url
          /\ sent[i].cookies.csrftoken = "1fUE8EFrgOyTgWlQnHfHSFYkBmXL1uGO"
          /\ sent[i].headers.X_CSRFToken = sent[i].cookies.csrftoken

C5_Witness ==
    /\ Returned
    /\ Len(sent) = 1
    /\ sent[1].method = "POST"
    /\ outcome.end = "saved"

\* C6: the data_time of every POST is resolved from the wall-clock time of
\* the invocation that sends it: it is 10 to 20 minutes before the moment
\* the POST is sent, whatever happened before and however long ago the
\* module was loaded.
C6_FreshSnapshotTime ==
    \A i \in 1..Len(sent) :
        TenToTwentyMinutes(Elapsed(ParseSecond(sent[i].data.data_time),
                                   sent[i].at))

\* C7: when the output file is written, the envelope's data is the station
\* filter's output for the response of this invocation, and its updated_at
\* is the wall clock read at write time, after the response came; it is
\* never the snapshot time sent as data_time.
C7_EnvelopeContent ==
    (Returned /\ outcome.end = "saved") =>
        /\ HasItems(outcome.response)
        /\ wfile.exists
        /\ wfile.text =
             DumpEnvelope(
               [updated_at |-> UpdatedAt(wfile),
                data |-> Select(Items(outcome.response),
                                TaoyuanIdx(Items(outcome.response)))])
        /\ Len(UpdatedAt(wfile)) = 16
        /\ ParseMinute(UpdatedAt(wfile)) =
             [outcome.saved_at EXCEPT !.second = 0, !.microsecond = 0]
        /\ ~Before(outcome.saved_at, outcome.received_at)
        /\ UpdatedAt(wfile) # LastRequest.data.data_time
        /\ Before(ParseSecond(LastRequest.data.data_time),
                  ParseMinute(UpdatedAt(wfile)))

C7_Witness ==
    /\ Returned
    /\ outcome.end = "saved"
    /\ Before(outcome.received_at, outcome.saved_at)
    /\ Items(outcome.response) = <<Station("TaibeiShi", "B"), Station(TAOYUAN, "C")>>
    /\ UpdatedAt(wfile) = "2024-01-01 10:47"
    /\ LastRequest.data.data_time = "2024-01-01 10:20:00"

\* the boundary script ended by an uncaught exception has nothing left to
\* run, and one that reached its end read every record with its COUNTYNAME
C9_State ==
    /\ (bpc = "crashed") =>
          (/\ berr \in {"ShapefileException", "KeyError"}
           /\ ~ENABLED (BOpen \/ BIter \/ BWrite)
           /\ (berr = "KeyError") =>
                 ("COUNTYNAME" \notin DOMAIN
                     ZipDict(Tail(shp.fields), shp.records[pos + 1].record)))
    /\ (bpc = "exit") =>
          (/\ shp.readable
           /\ shp.fail_at \notin 1..(Len(shp.records) + 1)
           /\ \A i \in 1..Len(shp.records) :
                 \E n \in 2..Len(shp.fields) : shp.fields[n] = "COUNTYNAME")

\* the output file changes only in the step that ends the script, taken
\* after the last record
C9_Step ==
    /\ (bfile' # bfile) => (bpc' = "exit" /\ pos = Len(shp.records))
    /\ (bpc' = "crashed") => (bfile' = bfile)
    /\ (bpc = "exit") => (bpc' = "exit")

\* C9: in the boundary script a failure while reading or filtering a record
\* is not caught and ends the run with the output file neither created nor
\* changed, the file being opened only after every record was processed; a
\* record without COUNTYNAME is such a failure, not a non-match.
C9_BoundaryFailure == []C9_State /\ [][C9_Step]_vars

C9_Witness ==
    /\ bpc = "crashed"
    /\ berr = "KeyError"
    /\ bfile = OldGeoJSON
    /\ Len(shp.records) = 2

\* C10: a response with status 'success' and no data field, or whose
\* stations all lack the city field or are of other cities, ends with the
\* output file written, replacing what it held, with an envelope whose data
\* is empty; it is not reported as a failure.
C10_EmptyResultSaved ==
    (/\ Returned
     /\ HasItems(outcome.response)
     /\ TaoyuanIdx(Items(outcome.response)) = {}) =>
        /\ outcome.end = "saved"
        /\ wfile.exists
        /\ wfile.text =
             <<"{", "\"updated_at\": ", "\"" \o UpdatedAt(wfile) \o "\"", ",",
               "\"data\": ", "[]", "}">>
        /\ ParseMinute(UpdatedAt(wfile)) =
             [outcome.saved_at EXCEPT !.second = 0, !.microsecond = 0]
        /\ log[Len(log)] = "Saved filtered data to taoyuan_realtime_weather.json"
        /\ \A i \in 1..Len(log) : ~IsErrorLine(log[i])

C10_Witness ==
    /\ Returned
    /\ outcome.end = "saved"
    /\ HasItems(outcome.response)
    /\ outcome.before = OldEnvelope
    /\ Items(outcome.response) = <<[ZhanHao |-> "N"], Station("TaibeiShi", "B")>>
    /\ wfile.text[6] = "[]"

=============================================================================
